---- MODULE Spec2Model ----
(***************************************************************************)
(* news-extract-api: the text pipeline of POST /v1/extract                 *)
(* (app/routers/extract.py).  Texts are sequences of one-character         *)
(* strings.  Python values (None, str, int, list, dict) are records        *)
(* [k |-> kind, v |-> payload].                                            *)
(***************************************************************************)
EXTENDS Integers, Sequences, FiniteSets, TLC

VARIABLES pc, trim, fetches, upstream, extractLog, extracted, text, fm, fmCalls,
          filterCalls, finalText, metaCalls, md, resp,
          fin, fout, fout2, fjoined, fpc,
          smIn, smOut, smpc

vars == <<pc, trim, fetches, upstream, extractLog, extracted, text, fm, fmCalls,
          filterCalls, finalText, metaCalls, md, resp,
          fin, fout, fout2, fjoined, fpc,
          smIn, smOut, smpc>>

(***************************************************************************)
(* Characters                                                              *)
(***************************************************************************)
Lower == {"a","b","c","d","e","f","g","h","i","j","k","l","m",
          "n","o","p","q","r","s","t","u","v","w","x","y","z"}

Upper == {"A","B","C","D","E","F","G","H","I","J","K","L","M",
          "N","O","P","Q","R","S","T","U","V","W","X","Y","Z"}

Digits == {"0","1","2","3","4","5","6","7","8","9"}

\* Hangul syllables of the patterns, named by code point.
Hangul == {"U+BB34", "U+B2E8", "U+C804", "U+C7AC", "U+BC30", "U+D3EC",
           "U+AE08", "U+C9C0", "U+BB38", "U+C758", "U+AE30", "U+C790",
           "U+C81C", "U+BCF4"}

\* str.isspace / regex \s, within the characters of the model.
Whitespace == {" ", "\t", "\n", "\r", "\f"}

\* The line boundaries str.splitlines knows, within the characters of the model.
LineBoundary == {"\n", "\r", "\f"}

\* regex \w under re.UNICODE.
WordChars == Lower \cup Upper \cup Digits \cup Hangul \cup {"_"}

(***************************************************************************)
(* Sequence helpers                                                        *)
(***************************************************************************)
Indices(s) == [i \in 1..Len(s) |-> i]

Last(s) == s[Len(s)]

\* n copies of character c.
Rep(c, n) == [i \in 1..n |-> c]

RECURSIVE Join(_, _)
\* sep.join(lines)
Join(lines, sep) ==
    IF lines = <<>> THEN <<>>
    ELSE IF Len(lines) = 1 THEN lines[1]
    ELSE lines[1] \o sep \o Join(Tail(lines), sep)

(***************************************************************************)
(* normalize_newlines                                                      *)
(***************************************************************************)
normalize_newlines(s) ==
    LET n == Len(s)
        \* .replace("\r\n", "\n"): the "\r" of every "\r\n" goes
        Kept(i) == ~(s[i] = "\r" /\ i < n /\ s[i + 1] = "\n")
        kept == SelectSeq(Indices(s), Kept)
        \* .replace("\r", "\n").replace("\t", " ")
        Map(c) == IF c = "\r" THEN "\n" ELSE IF c = "\t" THEN " " ELSE c
    IN  [k \in 1..Len(kept) |-> Map(s[kept[k]])]

(***************************************************************************)
(* str.splitlines, str.rstrip, str.strip                                   *)
(***************************************************************************)
splitlines(s) ==
    LET n == Len(s)
        \* the last character of each line terminator ("\r\n" is one terminator)
        IsEnd(i) == s[i] \in LineBoundary /\ ~(s[i] = "\r" /\ i < n /\ s[i + 1] = "\n")
        ends == SelectSeq(Indices(s), IsEnd)
        m == Len(ends)
        StartOf(k) == IF k = 1 THEN 1 ELSE ends[k - 1] + 1
        StopOf(k) ==
            IF s[ends[k]] = "\n" /\ ends[k] > StartOf(k) /\ s[ends[k] - 1] = "\r"
            THEN ends[k] - 2 ELSE ends[k] - 1
        terminated == [k \in 1..m |-> SubSeq(s, StartOf(k), StopOf(k))]
    IN  IF n = 0 THEN <<>>
        ELSE IF m = 0 THEN <<s>>
        ELSE IF ends[m] < n THEN Append(terminated, SubSeq(s, ends[m] + 1, n))
        ELSE terminated

rstrip(s) ==
    LET NotWs(i) == s[i] \notin Whitespace
        solid == SelectSeq(Indices(s), NotWs)
    IN  IF solid = <<>> THEN <<>> ELSE SubSeq(s, 1, Last(solid))

lstrip(s) ==
    LET NotWs(i) == s[i] \notin Whitespace
        solid == SelectSeq(Indices(s), NotWs)
    IN  IF solid = <<>> THEN <<>> ELSE SubSeq(s, solid[1], Len(s))

strip(s) == lstrip(rstrip(s))

(***************************************************************************)
(* Regular expressions (module re), as syntax trees, and re.match.         *)
(* Ends(r, s, i) is the set of positions a match of r that starts at       *)
(* position i of s can end before; a pattern matches when the set is not   *)
(* empty, which is what backtracking decides.                              *)
(***************************************************************************)
Alphabet == <<"a","b","c","d","e","f","g","h","i","j","k","l","m",
              "n","o","p","q","r","s","t","u","v","w","x","y","z">>

Capital == <<"A","B","C","D","E","F","G","H","I","J","K","L","M",
             "N","O","P","Q","R","S","T","U","V","W","X","Y","Z">>

\* re.IGNORECASE: a literal character matches itself in either case.
IgnoreCase(c) ==
    {c} \cup {Capital[i] : i \in {j \in 1..Len(Alphabet) : Alphabet[j] = c}}
        \cup {Alphabet[i] : i \in {j \in 1..Len(Capital) : Capital[j] = c}}

Cls(set) == [t |-> "cls", neg |-> FALSE, set |-> set]
NotCls(set) == [t |-> "cls", neg |-> TRUE, set |-> set]
Chr(c) == Cls(IgnoreCase(c))
Cat(rs) == [t |-> "cat", rs |-> rs]
Alt(rs) == [t |-> "alt", rs |-> rs]
Times(r, lo, hi) == [t |-> "rep", r |-> r, lo |-> lo, hi |-> hi, unbounded |-> FALSE]
AtLeast(r, lo) == [t |-> "rep", r |-> r, lo |-> lo, hi |-> lo, unbounded |-> TRUE]
Star(r) == AtLeast(r, 0)
Plus(r) == AtLeast(r, 1)
Opt(r) == Times(r, 0, 1)
Word(w) == Cat([i \in 1..Len(w) |-> Chr(w[i])])
Bol == [t |-> "bol"]
Eol == [t |-> "eol"]
WordBoundary == [t |-> "wordb"]
Sp == Cls(Whitespace)
NonSp == NotCls(Whitespace)
AnyChar == NotCls({"\n"})

InCls(r, c) == IF r.neg THEN c \notin r.set ELSE c \in r.set

IsWordAt(s, i) == i >= 1 /\ i <= Len(s) /\ s[i] \in WordChars

\* The number of characters from position i on that are in class r.
RunLength(r, s, i) ==
    LET n == Len(s)
    IN  IF i > n \/ ~InCls(r, s[i]) THEN 0
        ELSE LET stops == {j \in (i + 1)..n : ~InCls(r, s[j])}
             IN  IF stops = {} THEN n + 1 - i
                 ELSE (CHOOSE j \in stops : \A k \in stops : j <= k) - i

RECURSIVE Ends(_, _, _), CatEnds(_, _, _, _), RepEnds(_, _, _, _)

Ends(r, s, i) ==
    CASE r.t = "cls" -> IF i <= Len(s) /\ InCls(r, s[i]) THEN {i + 1} ELSE {}
      [] r.t = "cat" -> CatEnds(r.rs, 1, s, {i})
      [] r.t = "alt" -> UNION {Ends(r.rs[k], s, i) : k \in 1..Len(r.rs)}
      [] r.t = "rep" ->
            IF r.r.t = "cls"
            THEN LET run == RunLength(r.r, s, i)
                     most == IF r.unbounded \/ run < r.hi THEN run ELSE r.hi
                 IN  {i + k : k \in r.lo..most}
            ELSE RepEnds(r, s, {i}, 0)
      [] r.t = "bol" -> IF i = 1 THEN {i} ELSE {}
      [] r.t = "eol" ->
            IF i = Len(s) + 1 \/ (i = Len(s) /\ s[i] = "\n") THEN {i} ELSE {}
      [] r.t = "wordb" -> IF IsWordAt(s, i - 1) # IsWordAt(s, i) THEN {i} ELSE {}

\* The parts rs[k..] in sequence, from any position of `from`.
CatEnds(rs, k, s, from) ==
    IF k > Len(rs) \/ from = {} THEN from
    ELSE CatEnds(rs, k + 1, s, UNION {Ends(rs[k], s, p) : p \in from})

\* `from`: where `done` repetitions of r.r can have ended.
RepEnds(r, s, from, done) ==
    LET here == IF done >= r.lo THEN from ELSE {}
        more == UNION {Ends(r.r, s, p) : p \in from}
    IN  IF from = {} \/ (~r.unbounded /\ done = r.hi) THEN here
        ELSE here \cup RepEnds(r, s, more, done + 1)

\* rx.match(line) is not None
Matches(rx, line) == Ends(rx, line, 1) # {}

(***************************************************************************)
(* SAFE_NOISE_PATTERNS                                                     *)
(***************************************************************************)
Email == Cat(<<Plus(NonSp), Chr("@"), Plus(NonSp)>>)

HangulOrLetter == Cls(Lower \cup Upper \cup Hangul)

AllRightsReserved ==
    Cat(<<Word(<<"A","l","l">>), Plus(Sp), Word(<<"r","i","g","h","t","s">>), Plus(Sp),
          Word(<<"r","e","s","e","r","v","e","d">>), Opt(Chr("."))>>)

\* ( mailto : x@y )
MailtoLink ==
    Cat(<<Chr("("), Star(Sp), Word(<<"m","a","i","l","t","o">>), Star(Sp), Chr(":"),
          Star(Sp), Email, Star(Sp), Chr(")")>>)

\* [x@y] with both brackets optional
BracketedEmail ==
    Cat(<<Opt(Chr("[")), Star(Sp), Email, Star(Sp), Opt(Chr("]"))>>)

SAFE_NOISE_PATTERNS == <<
    \* 1: reprint prohibited
    Cat(<<Bol, Star(Sp), Word(<<"U+BB34", "U+B2E8">>), Star(Sp),
          Word(<<"U+C804", "U+C7AC">>), Star(Sp), Opt(Cls({"U+00B7", ","})), Star(Sp),
          Word(<<"U+C7AC", "U+BC30", "U+D3EC">>), Star(Sp),
          Word(<<"U+AE08", "U+C9C0">>), Star(Sp), Opt(Chr(".")), Star(Sp), Eol>>),
    \* 2: All rights reserved
    Cat(<<Bol, Star(Sp), AllRightsReserved, Star(Sp), Eol>>),
    \* 3: Copyright ... All rights reserved
    Cat(<<Bol, Star(Sp), Word(<<"C","o","p","y","r","i","g","h","t">>), WordBoundary,
          Times(NotCls({"\n"}), 0, 200), AllRightsReserved, Star(Sp), Eol>>),
    \* 4: (inquiry|Contact): email
    Cat(<<Bol, Star(Sp),
          Alt(<<Word(<<"U+BB38", "U+C758">>), Word(<<"C","o","n","t","a","c","t">>)>>),
          Star(Sp), Cls({":"}), Star(Sp), Email, Star(Sp), Eol>>),
    \* 5: name(s) reporter email
    Cat(<<Bol, Star(Sp), Plus(HangulOrLetter),
          Star(Cat(<<Plus(Sp), Plus(HangulOrLetter)>>)), Star(Sp),
          Word(<<"U+AE30", "U+C790">>), Star(Sp), Opt(Cls({":"})), Star(Sp), Email,
          Star(Sp), Eol>>),
    \* 6: tip-off: email
    Cat(<<Bol, Star(Sp), Word(<<"U+C81C", "U+BCF4">>), Star(Sp), Cls({":"}), Star(Sp),
          Email, Star(Sp), Eol>>),
    \* 7: a line that is only an e-mail address
    Cat(<<Bol, Star(Sp), Email, Star(Sp), Eol>>),
    \* 8: [email](mailto:email)
    Cat(<<Bol, Star(Sp), BracketedEmail, Star(Sp), MailtoLink, Star(Sp), Eol>>),
    \* 9: brand + mailto link
    Cat(<<Bol, Star(Sp), Plus(AnyChar), Plus(Sp), BracketedEmail, Star(Sp), MailtoLink,
          Star(Sp), Eol>>),
    \* 10: brand + plain e-mail address
    Cat(<<Bol, Star(Sp), Plus(Cls(WordChars \cup {"-", ".", " "})), Plus(Sp), Email,
          Star(Sp), Eol>> ) >>

\* any(rx.match(line) for rx in SAFE_REGEXES)
IsNoise(line) ==
    \E k \in 1..Len(SAFE_NOISE_PATTERNS) : Matches(SAFE_NOISE_PATTERNS[k], line)

(***************************************************************************)
(* remove_noise_lines_safe_only                                            *)
(***************************************************************************)
LongLineLimit == 5000

\* FilterLine appending the raw line instead of the stripped one.
FilterLineKeepsRaw(raw) ==
    LET line == rstrip(raw)
    IN  IF Len(line) > LongLineLimit THEN <<raw>>
        ELSE IF IsNoise(line) THEN <<>>
        ELSE <<raw>>

\* FilterLine without the long-line guard.
FilterLineNoGuard(raw) ==
    LET line == rstrip(raw)
    IN  IF IsNoise(line) THEN <<>> ELSE <<line>>

\* One turn of the loop over text.splitlines(): what it appends to cleaned_lines.
FilterLine(raw) ==
    LET line == rstrip(raw)
    IN  IF Len(line) > LongLineLimit THEN <<line>>
        ELSE IF IsNoise(line) THEN <<>>
        ELSE <<line>>

RECURSIVE CleanedLines(_)
CleanedLines(lines) ==
    IF lines = <<>> THEN <<>>
    ELSE FilterLine(Head(lines)) \o CleanedLines(Tail(lines))

\* CollapseBlankRuns with the pattern \n{4,}.
CollapseBlankRunsFour(s) ==
    LET Kept(i) == ~(/\ s[i] = "\n" /\ i >= 3 /\ s[i - 1] = "\n" /\ s[i - 2] = "\n"
                     /\ \/ (i >= 4 /\ s[i - 3] = "\n")
                        \/ (i < Len(s) /\ s[i + 1] = "\n"))
        kept == SelectSeq(Indices(s), Kept)
    IN  [k \in 1..Len(kept) |-> s[kept[k]]]

\* re.sub(r"\n{3,}", "\n\n", s): the third and later newlines of a run go
CollapseBlankRuns(s) ==
    LET Kept(i) == ~(s[i] = "\n" /\ i >= 3 /\ s[i - 1] = "\n" /\ s[i - 2] = "\n")
        kept == SelectSeq(Indices(s), Kept)
    IN  [k \in 1..Len(kept) |-> s[kept[k]]]

\* cleaned = "\n".join(cleaned_lines), before the blank lines are reduced
JoinedCleaned(t) == Join(CleanedLines(splitlines(normalize_newlines(t))), <<"\n">>)

remove_noise_lines_safe_only(t) == CollapseBlankRuns(JoinedCleaned(t))

(***************************************************************************)
(* collapse_newlines_to_spaces                                             *)
(***************************************************************************)
\* The end (exclusive) of the run of whitespace that starts at i.
WsRunEnd(s, i) == i + RunLength(Sp, s, i)

RECURSIVE SubNewlineRuns(_, _), SubSpaceRuns(_, _)

\* re.sub(r"\s*\n\s*", " ", s), from position i
SubNewlineRuns(s, i) ==
    IF i > Len(s) THEN <<>>
    ELSE IF s[i] \notin Whitespace THEN <<s[i]>> \o SubNewlineRuns(s, i + 1)
    ELSE LET j == WsRunEnd(s, i)
         IN  IF \E k \in i..(j - 1) : s[k] = "\n"
             THEN <<" ">> \o SubNewlineRuns(s, j)
             ELSE SubSeq(s, i, j - 1) \o SubNewlineRuns(s, j)

\* re.sub(r"\s{2,}", " ", s), from position i
SubSpaceRuns(s, i) ==
    IF i > Len(s) THEN <<>>
    ELSE IF s[i] \notin Whitespace THEN <<s[i]>> \o SubSpaceRuns(s, i + 1)
    ELSE LET j == WsRunEnd(s, i)
         IN  IF j - i >= 2
             THEN <<" ">> \o SubSpaceRuns(s, j)
             ELSE <<s[i]>> \o SubSpaceRuns(s, j)

collapse_newlines_to_spaces(s) == strip(SubSpaceRuns(SubNewlineRuns(s, 1), 1))

(***************************************************************************)
(* Python values                                                           *)
(***************************************************************************)
PyNone == [k |-> "none", v |-> <<>>]
PyStr(s) == [k |-> "str", v |-> s]
PyInt(digits) == [k |-> "int", v |-> digits]
PyList(items) == [k |-> "list", v |-> items]
PyDict(m) == [k |-> "dict", v |-> m]
EmptyDict == PyDict(<<>>)

\* bool(x)
Truthy(x) ==
    CASE x.k = "none" -> FALSE
      [] x.k = "str" -> x.v # <<>>
      [] x.k = "int" -> \E i \in 1..Len(x.v) : x.v[i] # "0"
      [] x.k = "list" -> x.v # <<>>
      [] x.k = "dict" -> DOMAIN x.v # {}
      [] OTHER -> TRUE

\* d.get(key), for a dict d
DictGet(d, key) == IF key \in DOMAIN d.v THEN d.v[key] ELSE PyNone

(***************************************************************************)
(* yaml.safe_load, for the documents of the model: a block mapping of      *)
(* plain one-line entries, a plain scalar, a one-line flow sequence, the   *)
(* empty document.  Anything else the inputs of the model hold (a token    *)
(* that starts with a reserved indicator, a mapping value inside a         *)
(* mapping value, an unclosed flow sequence) is a YAMLError.               *)
(***************************************************************************)
YamlError == [k |-> "error", v |-> <<>>]

\* The positions of a mapping indicator: a ":" followed by a space or the end.
MappingIndicators(l) ==
    {p \in 1..Len(l) : l[p] = ":" /\ (p = Len(l) \/ l[p + 1] = " ")}

Least(S) == CHOOSE x \in S : \A y \in S : x <= y

\* Characters a plain scalar cannot start with, within the characters of the model.
ReservedStart == {"@", "`", "[", "]", "{", "}", ",", "#", "&", "*", "!", "|", ">", "%",
                  "'", "\"", ":", "-", "?"}

\* A plain scalar, resolved: null, the empty string written "", an integer, a string.
YamlScalar(w) ==
    IF w = <<>> \/ w = <<"~">> THEN PyNone
    ELSE IF w = <<"\"", "\"">> THEN PyStr(<<>>)
    ELSE IF \A i \in 1..Len(w) : w[i] \in Digits THEN PyInt(w)
    ELSE PyStr(w)

IsPlain(w) ==
    w = <<>> \/ w = <<"\"", "\"">>
        \/ (w[1] \notin ReservedStart /\ MappingIndicators(w) = {})

RECURSIVE SplitOn(_, _)
\* s.split(c)
SplitOn(s, c) ==
    LET Hit(i) == s[i] = c
        hits == SelectSeq(Indices(s), Hit)
    IN  IF hits = <<>> THEN <<s>>
        ELSE <<SubSeq(s, 1, hits[1] - 1)>> \o SplitOn(SubSeq(s, hits[1] + 1, Len(s)), c)

YamlKey(l) == SubSeq(l, 1, Least(MappingIndicators(l)) - 1)
YamlValue(l) == strip(SubSeq(l, Least(MappingIndicators(l)) + 1, Len(l)))

\* key: value, at column 0, key and value plain
IsEntry(l) ==
    /\ MappingIndicators(l) # {}
    /\ l[1] \notin (ReservedStart \cup Whitespace)
    /\ IsPlain(YamlValue(l))

\* [a, b]: a one-line flow sequence of plain scalars
FlowItems(l) == SplitOn(SubSeq(l, 2, Len(l) - 1), ",")

IsFlowSequence(l) ==
    /\ Len(l) >= 2 /\ l[1] = "[" /\ Last(l) = "]"
    /\ \/ strip(SubSeq(l, 2, Len(l) - 1)) = <<>>
       \/ \A i \in 1..Len(FlowItems(l)) :
              strip(FlowItems(l)[i]) # <<>> /\ IsPlain(strip(FlowItems(l)[i]))

FlowSequence(l) ==
    IF strip(SubSeq(l, 2, Len(l) - 1)) = <<>> THEN PyList(<<>>)
    ELSE PyList([i \in 1..Len(FlowItems(l)) |-> YamlScalar(strip(FlowItems(l)[i]))])

Greatest(S) == CHOOSE x \in S : \A y \in S : x >= y

yaml_safe_load(block) ==
    LET all == SplitOn(block, "\n")
        NotBlank(l) == strip(l) # <<>>
        lines == SelectSeq(all, NotBlank)
        n == Len(lines)
        keys == {YamlKey(lines[i]) : i \in 1..n}
        \* a later entry of the same key wins
        LastOf(key) == Greatest({j \in 1..n : YamlKey(lines[j]) = key})
        one == strip(lines[1])
    IN  IF n = 0 THEN PyNone
        ELSE IF \A i \in 1..n : IsEntry(lines[i])
        THEN PyDict([key \in keys |-> YamlScalar(YamlValue(lines[LastOf(key)]))])
        ELSE IF n = 1 /\ IsFlowSequence(one) THEN FlowSequence(one)
        ELSE IF n = 1 /\ IsPlain(one) THEN YamlScalar(one)
        ELSE YamlError

(***************************************************************************)
(* strip_and_parse_front_matter                                            *)
(***************************************************************************)
StartsWith(s, prefix) ==
    Len(s) >= Len(prefix) /\ SubSeq(s, 1, Len(prefix)) = prefix

\* The first position of `pat` in s, or 0 (str.find, 1-based)
Find(s, pat) ==
    LET at == {i \in 1..(Len(s) - Len(pat) + 1) : SubSeq(s, i, i + Len(pat) - 1) = pat}
    IN  IF at = {} THEN 0 ELSE Least(at)

\* s.lstrip(chars)
LStripChars(s, chars) ==
    LET Other(i) == s[i] \notin chars
        rest == SelectSeq(Indices(s), Other)
    IN  IF rest = <<>> THEN <<>> ELSE SubSeq(s, rest[1], Len(s))

Delimiter == <<"\n", "-", "-", "-", "\n">>

\* LoadFrontMatter with the exception not caught.
LoadFrontMatterUncaught(fm_block) ==
    LET loaded == yaml_safe_load(fm_block)
    IN  IF Truthy(loaded) THEN loaded ELSE EmptyDict

\* yaml.safe_load(fm_block) or {}, with any exception giving {}
LoadFrontMatter(fm_block) ==
    LET loaded == yaml_safe_load(fm_block)
    IN  IF loaded.k = "error" THEN EmptyDict
        ELSE IF Truthy(loaded) THEN loaded
        ELSE EmptyDict

\* <<body, fm>>
strip_and_parse_front_matter(t) ==
    LET at == Find(t, Delimiter)
        head == SubSeq(t, 1, at - 1)
        rest == SubSeq(t, at + Len(Delimiter), Len(t))
    IN  IF StartsWith(t, <<"-", "-", "-">>) /\ at # 0
        THEN <<rest, LoadFrontMatter(LStripChars(head, {"-", "\n"}))>>
        ELSE <<t, EmptyDict>>

(***************************************************************************)
(* extract_endpoint: POST /v1/extract                                      *)
(*   pc          where the handler is                                      *)
(*   trim        the trim_newlines query parameter                         *)
(*   fetches     client.get calls made                                     *)
(*   upstream    how the fetch ended                                       *)
(*   extractLog  the extract() calls: profile and result, in order         *)
(*   extracted   the text extraction settled on                            *)
(*   text, fm, finalText, md   the handler's locals                        *)
(*   fmCalls, filterCalls, metaCalls   calls of the later stages           *)
(*   resp        the HTTP response                                         *)
(***************************************************************************)
KeyTitle == <<"t", "i", "t", "l", "e">>
KeyDate == <<"d", "a", "t", "e">>
KeyPublishedAt == <<"p", "u", "b", "l", "i", "s", "h", "e", "d", "_", "a", "t">>
KeySite == <<"s", "i", "t", "e">>
KeySitename == <<"s", "i", "t", "e", "n", "a", "m", "e">>
KeyHostname == <<"h", "o", "s", "t", "n", "a", "m", "e">>

SourceUrl == <<"h", "t", "t", "p", ":", "/", "/", "e", ".", "x", "/", "a">>

\* Statuses resp.raise_for_status() raises HTTPStatusError for.
UpstreamErrorStatuses == {301, 404, 503}

\* The front-matter blocks of the extractor's output in the model.
FrontBlocks == {
    <<"d", "a", "t", "e", ":", " ", "d", "\n", "p", "u", "b", "l", "i", "s", "h", "e", "d", "_", "a", "t", ":", " ", "p", "\n", "s", "i", "t", "e", ":", " ", "s">>,
    <<"p", "u", "b", "l", "i", "s", "h", "e", "d", "_", "a", "t", ":", " ", "p">>,
    <<"d", "a", "t", "e", ":", " ", "\"", "\"", "\n", "p", "u", "b", "l", "i", "s", "h", "e", "d", "_", "a", "t", ":", " ", "p", "\n", "s", "i", "t", "e", ":", " ", "0">>,
    <<"s", "i", "t", "e", ":", " ", "s">>,
    <<"h", "e", "l", "l", "o">>,
    <<"[", "a", ",", " ", "b", "]">>,
    <<"@", "x">>,
    <<>> }

FrontMatters == {<<>>} \cup {<<"-", "-", "-", "\n">> \o b \o Delimiter : b \in FrontBlocks}

Bodies == {
    <<>>,
    <<"A", "b", " ", "c", "\n", "\n", "d", ".">>,
    <<"x", "@", "y", ".", "z">>,
    <<" ">>,
    <<"A", "b", "\n", "\n", "x", "@", "y", ".", "z">> }

\* What trafilatura.extract can return: None, or a string (with_metadata=True
\* puts a front-matter header before the body).
ExtractorResults ==
    {PyNone} \cup {PyStr(f \o b) : f \in FrontMatters, b \in Bodies}

\* What trafilatura.extract_metadata can return: None, or a document.
MetaDocs ==
    {PyNone} \cup
    {[k |-> "doc", v |-> (KeyTitle :> t @@ KeyDate :> d @@ KeySitename :> sn @@ KeyHostname :> h)] :
        t \in {PyNone, PyStr(<<"T">>)},
        d \in {PyNone, PyStr(<<>>), PyStr(<<"D">>)},
        sn \in {PyNone, PyStr(<<"S">>)},
        h \in {PyNone, PyStr(<<"H">>)}}

NoResponse == [status |-> 0]

\* How client.get / raise_for_status ended.
NotFetched == [kind |-> "none", status |-> 0]
Fetched == [kind |-> "ok", status |-> 200]
UpstreamStatus(status) == [kind |-> "status", status |-> status]
RequestError == [kind |-> "network", status |-> 0]

\* raise HTTPException(status_code=status, detail=detail)
HttpError(status, detail) == [status |-> status, detail |-> detail]

GatewayTimeout == 504
UnprocessableContent == 422

\* An exception that is no HTTPException leaves the handler: the framework answers 500.
AttributeError == [k |-> "raise", v |-> <<>>]

\* x.get(key): a dict method; a str, an int or a list has none
Get(x, key) == IF x.k = "dict" THEN DictGet(x, key) ELSE AttributeError

\* a or b, b evaluated only when a is falsy
PyOr(a, b) == IF a.k = "raise" \/ Truthy(a) THEN a ELSE b

\* md = meta_doc.as_dict() if meta_doc and hasattr(meta_doc, "as_dict") else {}
AsDict(meta_doc) == IF meta_doc.k = "doc" THEN PyDict(meta_doc.v) ELSE EmptyDict

Title(m, f) == Get(m, KeyTitle)
\* PublishedAt with the front matter before the HTML metadata.
PublishedAtFrontMatterFirst(m, f) ==
    PyOr(Get(f, KeyDate), PyOr(Get(m, KeyDate), Get(f, KeyPublishedAt)))

PublishedAt(m, f) == PyOr(Get(m, KeyDate), PyOr(Get(f, KeyDate), Get(f, KeyPublishedAt)))
Site(m, f) == PyOr(Get(m, KeySitename), PyOr(Get(f, KeySite), Get(m, KeyHostname)))

\* The handler's return value, or what the framework answers when it raises.
Response(m, f, final) ==
    IF PublishedAt(m, f).k = "raise" \/ Site(m, f).k = "raise"
    THEN HttpError(500, "Internal Server Error")
    ELSE [status |-> 200, title |-> Title(m, f), text |-> final, source |-> SourceUrl,
          published_at |-> PublishedAt(m, f), site |-> Site(m, f)]

FilterIdle ==
    /\ fin = <<>> /\ fout = <<>> /\ fout2 = <<>> /\ fjoined = <<>> /\ fpc = "off"

SplitterIdle == smIn = <<>> /\ smOut = <<>> /\ smpc = "off"

EndpointIdle ==
    /\ pc = "off" /\ trim = FALSE /\ fetches = 0 /\ upstream = NotFetched
    /\ extractLog = <<>>
    /\ extracted = PyNone /\ text = PyNone /\ fm = EmptyDict /\ fmCalls = 0
    /\ filterCalls = 0 /\ finalText = PyNone /\ metaCalls = 0 /\ md = EmptyDict
    /\ resp = NoResponse

endpointVars == <<pc, trim, fetches, upstream, extractLog, extracted, text, fm, fmCalls,
                  filterCalls, finalText, metaCalls, md, resp>>
filterVars == <<fin, fout, fout2, fjoined, fpc>>
splitterVars == <<smIn, smOut, smpc>>

Init ==
    /\ pc = "idle" /\ trim = FALSE /\ fetches = 0 /\ upstream = NotFetched
    /\ extractLog = <<>>
    /\ extracted = PyNone /\ text = PyNone /\ fm = EmptyDict /\ fmCalls = 0
    /\ filterCalls = 0 /\ finalText = PyNone /\ metaCalls = 0 /\ md = EmptyDict
    /\ resp = NoResponse
    /\ FilterIdle /\ SplitterIdle

\* The request arrives: payload and trim_newlines are validated.
Receive(t) ==
    /\ pc = "idle"
    /\ trim' = t
    /\ pc' = "fetch"
    /\ UNCHANGED <<fetches, upstream, extractLog, extracted, text, fm, fmCalls, filterCalls,
                   finalText, metaCalls, md, resp>>
    /\ UNCHANGED <<filterVars, splitterVars>>

\* 1) client.get succeeds and raise_for_status passes
FetchOk ==
    /\ pc = "fetch"
    /\ fetches' = fetches + 1
    /\ upstream' = Fetched
    /\ pc' = "extract"
    /\ UNCHANGED <<trim, extractLog, extracted, text, fm, fmCalls, filterCalls,
                   finalText, metaCalls, md, resp>>
    /\ UNCHANGED <<filterVars, splitterVars>>

\* 1) raise_for_status raises httpx.HTTPStatusError
FetchHttpError(status) ==
    /\ pc = "fetch"
    /\ fetches' = fetches + 1
    /\ upstream' = UpstreamStatus(status)
    /\ resp' = HttpError(status, "upstream error")
    /\ pc' = "done"
    /\ UNCHANGED <<trim, extractLog, extracted, text, fm, fmCalls, filterCalls,
                   finalText, metaCalls, md>>
    /\ UNCHANGED <<filterVars, splitterVars>>

\* FetchRequestError with the exception swallowed: the handler goes on.
FetchRequestErrorSwallowed ==
    /\ pc = "fetch"
    /\ fetches' = fetches + 1
    /\ upstream' = RequestError
    /\ pc' = "extract"
    /\ UNCHANGED <<trim, extractLog, extracted, text, fm, fmCalls, filterCalls,
                   finalText, metaCalls, md, resp>>
    /\ UNCHANGED <<filterVars, splitterVars>>

\* 1) client.get raises httpx.RequestError (timeout, connection, DNS)
FetchRequestError ==
    /\ pc = "fetch"
    /\ fetches' = fetches + 1
    /\ upstream' = RequestError
    /\ resp' = HttpError(GatewayTimeout, "timeout or connection error to source")
    /\ pc' = "done"
    /\ UNCHANGED <<trim, extractLog, extracted, text, fm, fmCalls, filterCalls,
                   finalText, metaCalls, md>>
    /\ UNCHANGED <<filterVars, splitterVars>>

\* 2) text = extract(html, ..., fast=True, ...)
ExtractFast(result) ==
    /\ pc = "extract"
    /\ extractLog' = Append(extractLog, [profile |-> "fast", result |-> result])
    /\ text' = result
    /\ pc' = "extracted"
    /\ UNCHANGED <<trim, fetches, upstream, extracted, fm, fmCalls, filterCalls, finalText,
                   metaCalls, md, resp>>
    /\ UNCHANGED <<filterVars, splitterVars>>

\* 2) if not text: text = extract(html, fast=False, with_metadata=True)
ExtractThorough(result) ==
    /\ pc = "extracted"
    /\ Len(extractLog) = 1
    /\ ~Truthy(text)
    /\ extractLog' = Append(extractLog, [profile |-> "thorough", result |-> result])
    /\ text' = result
    /\ pc' = "extracted"
    /\ UNCHANGED <<trim, fetches, upstream, extracted, fm, fmCalls, filterCalls, finalText,
                   metaCalls, md, resp>>
    /\ UNCHANGED <<filterVars, splitterVars>>

\* 2) if not text (again): raise HTTPException(422)
NoContent ==
    /\ pc = "extracted"
    /\ Len(extractLog) = 2
    /\ ~Truthy(text)
    /\ resp' = HttpError(UnprocessableContent, "no content extracted")
    /\ pc' = "done"
    /\ UNCHANGED <<trim, fetches, upstream, extractLog, extracted, text, fm, fmCalls,
                   filterCalls, finalText, metaCalls, md>>
    /\ UNCHANGED <<filterVars, splitterVars>>

\* 3) text, fm = strip_and_parse_front_matter(text)
SplitFrontMatter ==
    /\ pc = "extracted"
    /\ Truthy(text)
    /\ extracted' = text
    /\ text' = PyStr(strip_and_parse_front_matter(text.v)[1])
    /\ fm' = strip_and_parse_front_matter(text.v)[2]
    /\ fmCalls' = fmCalls + 1
    /\ pc' = "filter"
    /\ UNCHANGED <<trim, fetches, upstream, extractLog, filterCalls, finalText, metaCalls, md,
                   resp>>
    /\ UNCHANGED <<filterVars, splitterVars>>

\* 4) text = remove_noise_lines_safe_only(text)
FilterNoise ==
    /\ pc = "filter"
    /\ text' = PyStr(remove_noise_lines_safe_only(text.v))
    /\ filterCalls' = filterCalls + 1
    /\ pc' = "finalize"
    /\ UNCHANGED <<trim, fetches, upstream, extractLog, extracted, fm, fmCalls, finalText,
                   metaCalls, md, resp>>
    /\ UNCHANGED <<filterVars, splitterVars>>

\* 5) final_text = collapse_newlines_to_spaces(text) if trim_newlines else text
FinalizeText ==
    /\ pc = "finalize"
    /\ finalText' = IF trim THEN PyStr(collapse_newlines_to_spaces(text.v)) ELSE text
    /\ pc' = "metadata"
    /\ UNCHANGED <<trim, fetches, upstream, extractLog, extracted, text, fm, fmCalls,
                   filterCalls, metaCalls, md, resp>>
    /\ UNCHANGED <<filterVars, splitterVars>>

\* 6) meta_doc = extract_metadata(html, ...); md = meta_doc.as_dict() or {}
ExtractMetadata(meta_doc) ==
    /\ pc = "metadata"
    /\ md' = AsDict(meta_doc)
    /\ metaCalls' = metaCalls + 1
    /\ pc' = "merge"
    /\ UNCHANGED <<trim, fetches, upstream, extractLog, extracted, text, fm, fmCalls,
                   filterCalls, finalText, resp>>
    /\ UNCHANGED <<filterVars, splitterVars>>

\* 6) - 7) title, published_at, site and the response
Respond ==
    /\ pc = "merge"
    /\ resp' = Response(md, fm, finalText)
    /\ pc' = "done"
    /\ UNCHANGED <<trim, fetches, upstream, extractLog, extracted, text, fm, fmCalls,
                   filterCalls, finalText, metaCalls, md>>
    /\ UNCHANGED <<filterVars, splitterVars>>



Next ==
    \/ \E t \in BOOLEAN : Receive(t)
    \/ FetchOk
    \/ \E status \in UpstreamErrorStatuses : FetchHttpError(status)
    \/ FetchRequestError
    \/ \E result \in ExtractorResults : ExtractFast(result)
    \/ \E result \in ExtractorResults : ExtractThorough(result)
    \/ NoContent
    \/ SplitFrontMatter
    \/ FilterNoise
    \/ FinalizeText
    \/ \E meta_doc \in MetaDocs : ExtractMetadata(meta_doc)
    \/ Respond

Spec == Init /\ [][Next]_vars

(***************************************************************************)
(* remove_noise_lines_safe_only as a function of its input:                *)
(*   fin      the input text                                               *)
(*   fjoined  "\n".join(cleaned_lines) of the first call                   *)
(*   fout     the first call's result;  fout2  the result of a second      *)
(*   call on fout                                                          *)
(***************************************************************************)
MaxLen == 6

FilterChars == {"a", "@", " ", "\n"}

\* Every text of at most MaxLen characters of FilterChars.
ShortTexts == UNION {[1..n -> FilterChars] : n \in 0..MaxLen}

CopyrightLine ==
    <<"C", "o", "p", "y", "r", "i", "g", "h", "t", " ", "2", "0", "2", "4", " ", "E",
      "x", "a", "m", "p", "l", "e", " ", "C", "o", "r", "p", ".", " ", "A", "l", "l",
      " ", "r", "i", "g", "h", "t", "s", " ", "r", "e", "s", "e", "r", "v", "e", "d",
      ".">>

ArticleLine ==
    <<"T", "h", "i", "s", " ", "a", "r", "t", "i", "c", "l", "e", " ", "d", "i", "s",
      "c", "u", "s", "s", "e", "s", " ", "A", "l", "l", " ", "r", "i", "g", "h", "t",
      "s", " ", "r", "e", "s", "e", "r", "v", "e", "d", " ", "c", "o", "p", "y", "r",
      "i", "g", "h", "t", "s", " ", "i", "n", " ", "g", "e", "n", "e", "r", "a", "l",
      ".">>

LongEmailLine == <<"a", "@">> \o Rep("a", LongLineLimit)
LongByPaddingLine == <<"a", "@", "a">> \o Rep(" ", LongLineLimit - 2)
LongPaddedLine == Rep("a", LongLineLimit + 1) \o <<" ", " ">>

SampleLines == {
    <<>>,
    CopyrightLine,
    ArticleLine,
    <<"A", "l", "l", " ", "r", "i", "g", "h", "t", "s", " ", "r", "e", "s", "e", "r", "v", "e", "d", ".">>,
    <<"C", "o", "n", "t", "a", "c", "t", ":", " ", "a", "@", "b", ".", "c">>,
    <<"N", "e", "w", "s", " ", "[", "a", "@", "b", ".", "c", "]", "(", "m", "a", "i", "l", "t", "o", ":", "a", "@", "b", ".", "c", ")">>,
    <<"B", "o", "d", "y", "\t", "t", "e", "x", "t", " ", " ">>,
    <<"x", "\f", "y">> }

LineSeparators == {<<"\n">>, <<"\r", "\n">>, <<"\n", "\n", "\n">>}

SampleTexts ==
    SampleLines \cup
    {a \o sep \o b : a \in SampleLines, sep \in LineSeparators, b \in SampleLines}

LongLines == {LongEmailLine, LongByPaddingLine, LongPaddedLine}

LongTexts ==
    LongLines \cup {l \o <<"\n">> \o CopyrightLine : l \in LongLines}
              \cup {ArticleLine \o <<"\r", "\n">> \o l : l \in LongLines}

FilterInputs == ShortTexts \cup SampleTexts \cup LongTexts

InitFilter ==
    /\ fin \in FilterInputs
    /\ fout = <<>> /\ fout2 = <<>> /\ fjoined = <<>> /\ fpc = "in"
    /\ EndpointIdle /\ SplitterIdle

FilterOnce ==
    /\ fpc = "in"
    /\ fjoined' = JoinedCleaned(fin)
    /\ fout' = remove_noise_lines_safe_only(fin)
    /\ fpc' = "once"
    /\ UNCHANGED <<fin, fout2, endpointVars, splitterVars>>

FilterTwice ==
    /\ fpc = "once"
    /\ fout2' = remove_noise_lines_safe_only(fout)
    /\ fpc' = "twice"
    /\ UNCHANGED <<fin, fout, fjoined, endpointVars, splitterVars>>

NextFilter == FilterOnce \/ FilterTwice

SpecFilter == InitFilter /\ [][NextFilter]_vars

(***************************************************************************)
(* strip_and_parse_front_matter as a function of its input:                *)
(*   smIn  the input text;  smOut  <<body, fm>>                            *)
(***************************************************************************)
Openings == {<<"-", "-", "-", "\n">>, <<>>, <<"-", "-", "-", "-", "\n">>,
             <<" ", "-", "-", "-", "\n">>}

SplitterBlocks ==
    FrontBlocks \cup {<<"a", ":", " ", "b", ":", " ", "c">>, <<"[", "a">>}

Closings == {Delimiter, <<"\n", "-", "-", "-">>, <<>>, <<"\n", "-", "-", "-", "\r", "\n">>}

SplitterBodies == {<<>>, <<"B">>, <<"B", "\n", "C">>}

SplitterInputs ==
    {o \o b \o c \o t : o \in Openings, b \in SplitterBlocks, c \in Closings,
                        t \in SplitterBodies}

InitSplitter ==
    /\ smIn \in SplitterInputs
    /\ smOut = <<>> /\ smpc = "in"
    /\ EndpointIdle /\ FilterIdle

Split ==
    /\ smpc = "in"
    /\ smOut' = strip_and_parse_front_matter(smIn)
    /\ smpc' = "out"
    /\ UNCHANGED <<smIn, endpointVars, filterVars>>

NextSplitter == Split

SpecSplitter == InitSplitter /\ [][NextSplitter]_vars

(***************************************************************************)
(* Properties                                                              *)
(***************************************************************************)
IsEmptyDict(x) == x.k = "dict" /\ DOMAIN x.v = {}

\* The first element of vals that is not None, or None.
FirstPresent(vals) ==
    LET at == {i \in 1..Len(vals) : vals[i] # PyNone}
    IN  IF at = {} THEN PyNone ELSE vals[Least(at)]

\* The first truthy element of vals, or the last element.
FirstTruthy(vals) ==
    LET at == {i \in 1..Len(vals) : Truthy(vals[i])}
    IN  IF at = {} THEN Last(vals) ELSE vals[Least(at)]

\* The response text the pipeline builds from an extraction result.
BuiltFrom(result, flat) ==
    LET cleaned == remove_noise_lines_safe_only(strip_and_parse_front_matter(result.v)[1])
    IN  PyStr(IF flat THEN collapse_newlines_to_spaces(cleaned) ELSE cleaned)

NoLaterStage == extractLog = <<>> /\ fmCalls = 0 /\ filterCalls = 0 /\ metaCalls = 0

\* C1: after a successful fetch the fast profile is tried first; the thorough
\* profile is tried exactly once and only when the fast attempt was empty; the
\* request fails with 422 if and only if both attempts were empty; when only the
\* fast attempt was empty the response is built from the thorough text with no
\* error; no request makes more than two extraction attempts.
C1_FastThenThorough ==
    /\ Len(extractLog) <= 2
    /\ (Len(extractLog) >= 1 => extractLog[1].profile = "fast" /\ upstream = Fetched)
    /\ (Len(extractLog) = 2 =>
            extractLog[2].profile = "thorough" /\ ~Truthy(extractLog[1].result))
    /\ (pc = "done" /\ upstream = Fetched =>
            /\ Len(extractLog) >= 1
            /\ (~Truthy(extractLog[1].result) => Len(extractLog) = 2)
            /\ (resp.status = UnprocessableContent <=>
                    /\ Len(extractLog) = 2
                    /\ ~Truthy(extractLog[1].result)
                    /\ ~Truthy(extractLog[2].result))
            /\ (Len(extractLog) = 2 /\ Truthy(extractLog[2].result) =>
                    /\ resp.status = 200
                    /\ resp.text = BuiltFrom(extractLog[2].result, trim)))

\* C2: every 200 response has a non-empty text.
C2_TextNeverEmpty ==
    resp.status = 200 => resp.text.k = "str" /\ resp.text.v # <<>>

\* C3: the fetch is attempted exactly once; an upstream error status is passed
\* through, a network failure gives 504, and after either no extraction, front-matter
\* split, noise filtering or metadata extraction is performed.
C3_FetchFailureTerminal ==
    /\ fetches <= 1
    /\ (pc \notin {"idle", "fetch"} => fetches = 1)
    /\ (upstream.kind = "status" =>
            pc = "done" /\ resp.status = upstream.status /\ NoLaterStage)
    /\ (upstream.kind = "network" =>
            pc = "done" /\ resp.status = GatewayTimeout /\ NoLaterStage)

\* C3: a request whose fetch failed at the network level, answered 504.
C3_Witness ==
    /\ pc = "done" /\ fetches = 1
    /\ upstream.kind = "network" /\ resp.status = GatewayTimeout

\* C4 as stated: with a front-matter mapping, title is the metadata title,
\* published_at the first value present among metadata date, front-matter date and
\* front-matter published_at, site the first present among metadata sitename,
\* front-matter site and metadata hostname; the request does not fail.
C4_Original ==
    pc = "done" /\ metaCalls = 1 /\ fm.k = "dict" =>
        /\ resp.status = 200
        /\ resp.title = DictGet(md, KeyTitle)
        /\ resp.published_at =
               FirstPresent(<<DictGet(md, KeyDate), DictGet(fm, KeyDate),
                              DictGet(fm, KeyPublishedAt)>>)
        /\ resp.site =
               FirstPresent(<<DictGet(md, KeySitename), DictGet(fm, KeySite),
                              DictGet(md, KeyHostname)>>)

\* C4 as amended: each field is the first truthy value of its sources in the stated
\* order, and the last source's value when none is truthy.
C4_MergePrecedence ==
    pc = "done" /\ metaCalls = 1 /\ fm.k = "dict" =>
        /\ resp.status = 200
        /\ resp.title = DictGet(md, KeyTitle)
        /\ resp.published_at =
               FirstTruthy(<<DictGet(md, KeyDate), DictGet(fm, KeyDate),
                             DictGet(fm, KeyPublishedAt)>>)
        /\ resp.site =
               FirstTruthy(<<DictGet(md, KeySitename), DictGet(fm, KeySite),
                             DictGet(md, KeyHostname)>>)

\* C4: metadata absent, the date taken from the front matter.
C4_Witness ==
    /\ pc = "done" /\ metaCalls = 1 /\ DOMAIN md.v = {}
    /\ fm.k = "dict" /\ Truthy(DictGet(fm, KeyDate))
    /\ resp.status = 200
    /\ resp.published_at = DictGet(fm, KeyDate)
    /\ resp.title = PyNone

\* C10: strip_and_parse_front_matter always returns a mapping, and once fetch and
\* extraction have succeeded the request ends with a 200 response.
C10_FrontMatterNeverFails ==
    /\ (fmCalls = 1 => fm.k = "dict")
    /\ (pc = "done" /\ fmCalls = 1 => resp.status = 200)

\* The input's lines as the filter sees them: normalized, split, right-stripped.
StrippedLines(t) ==
    LET lines == splitlines(normalize_newlines(t))
    IN  [k \in 1..Len(lines) |-> rstrip(lines[k])]

NonBlank(l) == strip(l) # <<>>

\* Not blank, and longer than the limit or no noise line.
Survives(l) == NonBlank(l) /\ (Len(l) > LongLineLimit \/ ~IsNoise(l))

OutputLines(t) == SplitOn(t, "\n")

\* A line that is only the delimiter, after the first line.
HasClosingLine(t) ==
    \E k \in 2..Len(SplitOn(t, "\n")) : SplitOn(t, "\n")[k] = <<"-", "-", "-">>

\* The block between the delimiters does not load.
EnclosedBlockFails(t) ==
    /\ Find(t, Delimiter) # 0
    /\ yaml_safe_load(LStripChars(SubSeq(t, 1, Find(t, Delimiter) - 1), {"-", "\n"})).k
           = "error"

\* The text after the closing delimiter.
AfterClosing(t) == SubSeq(t, Find(t, Delimiter) + Len(Delimiter), Len(t))

\* C5 as stated: with no opening delimiter, with no closing delimiter line, or with
\* an enclosed block that fails to parse, the splitter returns the original text and
\* an empty mapping.
C5_Original ==
    smpc = "out" =>
        /\ (~StartsWith(smIn, <<"-", "-", "-">>) =>
                smOut[1] = smIn /\ IsEmptyDict(smOut[2]))
        /\ (StartsWith(smIn, <<"-", "-", "-">>) /\ ~HasClosingLine(smIn) =>
                smOut[1] = smIn /\ IsEmptyDict(smOut[2]))
        /\ (StartsWith(smIn, <<"-", "-", "-">>) /\ EnclosedBlockFails(smIn) =>
                smOut[1] = smIn /\ IsEmptyDict(smOut[2]))

\* C5 as amended: an enclosed block that fails to parse is stripped all the same:
\* the splitter returns the text after the closing delimiter and an empty mapping.
C5_Degrade ==
    smpc = "out" =>
        /\ (~StartsWith(smIn, <<"-", "-", "-">>) =>
                smOut[1] = smIn /\ IsEmptyDict(smOut[2]))
        /\ (StartsWith(smIn, <<"-", "-", "-">>) /\ ~HasClosingLine(smIn) =>
                smOut[1] = smIn /\ IsEmptyDict(smOut[2]))
        /\ (StartsWith(smIn, <<"-", "-", "-">>) /\ EnclosedBlockFails(smIn) =>
                smOut[1] = AfterClosing(smIn) /\ IsEmptyDict(smOut[2]))

\* C5: a delimited block that fails to parse, and a body after it.
C5_Witness ==
    /\ smpc = "out"
    /\ StartsWith(smIn, <<"-", "-", "-">>) /\ EnclosedBlockFails(smIn)
    /\ smOut[1] = <<"B">> /\ IsEmptyDict(smOut[2])

\* C6 as stated: the non-blank lines of the output are exactly the input's non-blank
\* lines that match no noise pattern, in order and character for character.
C6_Original ==
    fpc # "in" =>
        SelectSeq(OutputLines(fout), NonBlank) = SelectSeq(splitlines(fin), Survives)

\* C6 as amended: the non-blank lines of the output are exactly, in order, the
\* non-blank lines that match no noise pattern (or are longer than the limit) among
\* the input's lines taken after newline and tab normalization and removal of
\* trailing whitespace; a kept line is identical to that normalized, right-stripped
\* line.
C6_WholeLines ==
    fpc # "in" =>
        SelectSeq(OutputLines(fout), NonBlank) = SelectSeq(StrippedLines(fin), Survives)

\* C6: the copyright line goes, the article line that only mentions the words stays.
C6_Witness ==
    /\ fpc = "once"
    /\ fin = CopyrightLine \o <<"\n">> \o ArticleLine
    /\ fout = ArticleLine

\* C7 as stated: every input line longer than the limit, measured as given, is in
\* the output verbatim.
C7_Original ==
    fpc # "in" =>
        \A k \in 1..Len(splitlines(fin)) :
            Len(splitlines(fin)[k]) > LongLineLimit =>
                \E j \in 1..Len(OutputLines(fout)) :
                    OutputLines(fout)[j] = splitlines(fin)[k]

\* C7 as amended: every input line longer than the limit once right-stripped is in
\* the output, right-stripped, whatever it holds.
C7_LongLinesBypass ==
    fpc # "in" =>
        \A k \in 1..Len(StrippedLines(fin)) :
            Len(StrippedLines(fin)[k]) > LongLineLimit =>
                \E j \in 1..Len(OutputLines(fout)) :
                    OutputLines(fout)[j] = StrippedLines(fin)[k]

\* C7: a long line that has the shape of an e-mail address is kept.
C7_Witness ==
    /\ fpc = "once"
    /\ fin = LongEmailLine \o <<"\n">> \o CopyrightLine
    /\ fout = LongEmailLine

\* C8: filtering twice gives what filtering once gives.
C8_Idempotent == fpc = "twice" => fout2 = fout

\* The positions of the characters of s that are no newline.
SolidAt(s) ==
    LET Solid(i) == s[i] # "\n"
    IN  SelectSeq(Indices(s), Solid)

\* The newlines of s between the j-th solid character and the next (j = 0: before
\* the first; j = Len(at): after the last), `at` being SolidAt(s).
Gap(s, at, j) ==
    (IF j = Len(at) THEN Len(s) + 1 ELSE at[j + 1]) - (IF j = 0 THEN 0 ELSE at[j]) - 1

\* C9 as stated, for the blank lines between two lines of text (a gap of n + 1
\* newlines is n blank lines): three or more become one, one or two stay.
C9_Original ==
    fpc # "in" =>
        LET before == SolidAt(fjoined)
            after == SolidAt(fout)
        IN  /\ Len(after) = Len(before)
            /\ \A j \in 1..(Len(before) - 1) :
                   Gap(fout, after, j) =
                       IF Gap(fjoined, before, j) >= 4 THEN 2 ELSE Gap(fjoined, before, j)

\* C9 as amended: every run of three or more newline characters becomes exactly two
\* newlines, shorter runs and everything else stay; the output holds no three
\* newlines in a row.
C9_NewlineRuns ==
    fpc # "in" =>
        LET before == SolidAt(fjoined)
            after == SolidAt(fout)
        IN  /\ Len(after) = Len(before)
            /\ \A j \in 1..Len(before) : fout[after[j]] = fjoined[before[j]]
            /\ \A j \in 0..Len(before) :
                   Gap(fout, after, j) =
                       IF Gap(fjoined, before, j) >= 3 THEN 2 ELSE Gap(fjoined, before, j)

\* C9: two blank lines between two lines become one.
C9_Witness ==
    /\ fpc = "once"
    /\ fjoined = ArticleLine \o <<"\n", "\n", "\n">> \o ArticleLine
    /\ fout = ArticleLine \o <<"\n", "\n">> \o ArticleLine

====
